---- MODULE Spec2Model ----
(***************************************************************************)
(* Model of the cross-layer filtering and harmonization handlers of the    *)
(* gemara MCP server (package mcp): the Layer 1 document loader, the       *)
(* guidance filter (import_guidelines_by_criteria), the control filter     *)
(* (import_controls_by_label) and the Layer 3 control-modifier synthesizer *)
(* (create_layer3_control_modifiers).                                      *)
(*                                                                         *)
(* Go strings that the code compares ignoring case or parses as URIs are   *)
(* sequences of one-character strings; identifiers that the code only      *)
(* compares for equality are TLA+ strings.                                 *)
(***************************************************************************)
EXTENDS Integers, Sequences, FiniteSets, TLC

VARIABLES
    pc,         \* position of the handler: idle, called, fileio, http1, http2, catio, done
    tool,       \* the tool the request names
    args,       \* the request's arguments as sent by the caller
    env,        \* what the referenced file holds while the request runs
    params,     \* the handler's params struct after BindArguments
    doc,        \* the *layer1.GuidanceDocument the loader filled
    ioLog,      \* I/O operations the invocation performed, in order
    catalog,    \* the *layer2.Catalog that LoadFile filled
    resp,       \* the handler's return values (*mcp.CallToolResult, error)
    first,      \* the result of the previous filter when it is filtered again
    cancelled,  \* the request context of the invocation is done
    parked,     \* the locals of an overlapping invocation that is not running a step
    srv         \* Server.Start: its position, the signal context, the listener and errC

vars == <<pc, tool, args, env, params, doc, catalog, ioLog, resp, first, cancelled, parked, srv>>

----------------------------------------------------------------------------
(* Bounds of the model *)

MaxGuidelines == 2      \* guidelines per guidance document (a category without any counts 1)
MaxEntries == 2         \* applicability entries per guidance document
MaxControls == 2        \* controls per catalog
MaxRefs == 2            \* guideline-mapping entries per control
MaxLabels == 2          \* labels per request of the control filter

----------------------------------------------------------------------------
(* Strings *)

EmptyStr == <<>>

UpperOf == [c \in {"a", "e", "s", "u"} |->
              CASE c = "a" -> "A" [] c = "e" -> "E" [] c = "s" -> "S" [] c = "u" -> "U"]

LowerChar(c) ==
    IF \E l \in DOMAIN UpperOf : UpperOf[l] = c
    THEN CHOOSE l \in DOMAIN UpperOf : UpperOf[l] = c
    ELSE c

\* strings.ToLower
ToLower(s) == [i \in 1..Len(s) |-> LowerChar(s[i])]

\* strings.ToUpper
ToUpper(s) == [i \in 1..Len(s) |-> IF s[i] \in DOMAIN UpperOf THEN UpperOf[s[i]] ELSE s[i]]

\* a comparison that respects case
EqualFoldExact(s, t) == s = t

\* a comparison that accepts a criterion that is a prefix of the entry
EqualFoldPrefix(s, t) ==
    /\ Len(t) <= Len(s)
    /\ \A i \in 1..Len(t) : LowerChar(s[i]) = LowerChar(t[i])

\* strings.EqualFold: equal under case folding, as whole strings
EqualFold(s, t) ==
    /\ Len(s) = Len(t)
    /\ \A i \in 1..Len(s) : LowerChar(s[i]) = LowerChar(t[i])

\* strings.HasPrefix
HasPrefix(s, p) == Len(p) <= Len(s) /\ SubSeq(s, 1, Len(p)) = p

\* strings.TrimPrefix
TrimPrefix(s, p) == IF HasPrefix(s, p) THEN SubSeq(s, Len(p) + 1, Len(s)) ELSE s

\* index of the first occurrence of character c in s, 0 when there is none
IndexOf(s, c) ==
    IF \E i \in 1..Len(s) : s[i] = c
    THEN CHOOSE i \in 1..Len(s) : s[i] = c /\ \A j \in 1..(i - 1) : s[j] # c
    ELSE 0

\* index of the last occurrence of character c in s, 0 when there is none
LastIndexOf(s, c) ==
    IF \E i \in 1..Len(s) : s[i] = c
    THEN CHOOSE i \in 1..Len(s) : s[i] = c /\ \A j \in (i + 1)..Len(s) : s[j] # c
    ELSE 0

\* the letters that occur in the references of the model
Letters == {"a", "c", "d", "e", "f", "h", "i", "j", "l", "m", "n", "o", "p", "s", "t", "u", "y",
            "A", "E", "S", "U"}

SchemePunct == {"+", "-", "."}

----------------------------------------------------------------------------
(* net/url as loadLayer1Document uses it *)

NoUrl == [err |-> TRUE, Scheme |-> <<>>, Opaque |-> <<>>, Host |-> <<>>, Path |-> <<>>,
          OmitHost |-> FALSE]

RECURSIVE getScheme(_, _)
getScheme(rawURL, i) ==
    IF i > Len(rawURL) THEN [err |-> FALSE, scheme |-> <<>>, rest |-> rawURL]
    ELSE IF rawURL[i] \in Letters THEN getScheme(rawURL, i + 1)
    ELSE IF rawURL[i] \in SchemePunct
         THEN IF i = 1 THEN [err |-> FALSE, scheme |-> <<>>, rest |-> rawURL]
              ELSE getScheme(rawURL, i + 1)
    ELSE IF rawURL[i] = ":"
         THEN IF i = 1 THEN [err |-> TRUE, scheme |-> <<>>, rest |-> <<>>]
              ELSE [err |-> FALSE, scheme |-> SubSeq(rawURL, 1, i - 1),
                    rest |-> SubSeq(rawURL, i + 1, Len(rawURL))]
    ELSE [err |-> FALSE, scheme |-> <<>>, rest |-> rawURL]

\* the first path segment of a scheme-less reference holds a colon
ColonInFirstSegment(rest) ==
    LET slash == IndexOf(rest, "/")
        seg == IF slash = 0 THEN rest ELSE SubSeq(rest, 1, slash - 1)
    IN IndexOf(seg, ":") # 0

\* url.Parse
UrlParse(rawURL) ==
    LET gs == getScheme(rawURL, 1)
        scheme == ToLower(gs.scheme)
        rest == gs.rest
    IN IF gs.err THEN NoUrl
       ELSE IF ~HasPrefix(rest, <<"/">>)
       THEN IF scheme # <<>>
            THEN [err |-> FALSE, Scheme |-> scheme, Opaque |-> rest, Host |-> <<>>,
                  Path |-> <<>>, OmitHost |-> FALSE]
            ELSE IF ColonInFirstSegment(rest) THEN NoUrl
            ELSE [err |-> FALSE, Scheme |-> scheme, Opaque |-> <<>>, Host |-> <<>>,
                  Path |-> rest, OmitHost |-> FALSE]
       ELSE IF (scheme # <<>> \/ ~HasPrefix(rest, <<"/", "/", "/">>))
               /\ HasPrefix(rest, <<"/", "/">>)
       THEN LET authority == SubSeq(rest, 3, Len(rest))
                slash == IndexOf(authority, "/")
            IN [err |-> FALSE, Scheme |-> scheme, Opaque |-> <<>>,
                Host |-> IF slash = 0 THEN authority ELSE SubSeq(authority, 1, slash - 1),
                Path |-> IF slash = 0 THEN <<>> ELSE SubSeq(authority, slash, Len(authority)),
                OmitHost |-> FALSE]
       ELSE [err |-> FALSE, Scheme |-> scheme, Opaque |-> <<>>, Host |-> <<>>,
             Path |-> rest, OmitHost |-> scheme # <<>>]

\* (*url.URL).String
UrlString(u) ==
    LET schemePart == IF u.Scheme # <<>> THEN u.Scheme \o <<":">> ELSE <<>>
        hostPart ==
            IF u.Scheme # <<>> \/ u.Host # <<>>
            THEN IF u.OmitHost /\ u.Host = <<>> THEN <<>>
                 ELSE (IF u.Host # <<>> \/ u.Path # <<>> THEN <<"/", "/">> ELSE <<>>) \o u.Host
            ELSE <<>>
        sep == IF u.Path # <<>> /\ u.Path[1] # "/" /\ u.Host # <<>> THEN <<"/">> ELSE <<>>
        dot == IF schemePart \o hostPart \o sep = <<>> /\ ColonInFirstSegment(u.Path)
               THEN <<".", "/">> ELSE <<>>
    IN IF u.Opaque # <<>> THEN schemePart \o u.Opaque
       ELSE schemePart \o hostPart \o sep \o dot \o u.Path

\* filepath.Ext: the suffix of the last path element that starts at its last dot
FilepathExt(path) ==
    LET slash == LastIndexOf(path, "/")
        base == SubSeq(path, slash + 1, Len(path))
        dot == LastIndexOf(base, ".")
    IN IF dot = 0 THEN <<>> ELSE SubSeq(base, dot, Len(base))

SchemeHttp == <<"h", "t", "t", "p">>
SchemeHttps == <<"h", "t", "t", "p", "s">>
SchemeFile == <<"f", "i", "l", "e">>
FilePrefix == <<"f", "i", "l", "e", ":", "/", "/">>
ExtJson == <<".", "j", "s", "o", "n">>

\* a dispatch that hands every reference without http(s) scheme to the file loader
loadLayer1DocumentElseFile(filePath) ==
    LET parsedURL == UrlParse(filePath)
    IN IF ~parsedURL.err /\ (parsedURL.Scheme = SchemeHttps \/ parsedURL.Scheme = SchemeHttp)
       THEN [to |-> "url", ref |-> UrlString(parsedURL), scheme |-> parsedURL.Scheme]
       ELSE [to |-> "file", ref |-> filePath, scheme |-> <<>>]

\* loadLayer1Document up to the call of a loader: which loader runs, on what
loadLayer1Document(filePath) ==
    LET parsedURL == UrlParse(filePath)
    IN IF parsedURL.err THEN [to |-> "file", ref |-> filePath, scheme |-> <<>>]
       ELSE IF parsedURL.Scheme = SchemeHttps \/ parsedURL.Scheme = SchemeHttp
       THEN [to |-> "url", ref |-> UrlString(parsedURL), scheme |-> parsedURL.Scheme]
       ELSE IF parsedURL.Scheme = SchemeFile
       THEN [to |-> "file", ref |-> TrimPrefix(UrlString(parsedURL), FilePrefix),
             scheme |-> parsedURL.Scheme]
       ELSE [to |-> "unsupported", ref |-> <<>>, scheme |-> parsedURL.Scheme]

----------------------------------------------------------------------------
(* Documents *)

\* all sequences over S of length at most n
SeqsUpTo(S, n) == UNION {[1..k -> S] : k \in 0..n}

RECURSIVE Flatten(_)
Flatten(ss) == IF ss = <<>> THEN <<>> ELSE Head(ss) \o Flatten(Tail(ss))

StrUS == <<"U", "S">>
StrUs == <<"U", "s">>
Stru == <<"u">>

\* entries of the applicability sets of the guidance documents
AppStrs == {StrUS, Stru}

\* values of the technology, sector and jurisdiction arguments
CritStrs == {EmptyStr, StrUs, Stru}

NilApplicability ==
    [isNil |-> TRUE, TechnologyDomains |-> <<>>, IndustrySectors |-> <<>>, Jurisdictions |-> <<>>]

Applicabilities ==
    {NilApplicability} \cup
    {[isNil |-> FALSE, TechnologyDomains |-> t, IndustrySectors |-> s, Jurisdictions |-> j] :
        <<t, s, j>> \in {x \in SeqsUpTo(AppStrs, MaxEntries) \X SeqsUpTo(AppStrs, MaxEntries)
                                   \X SeqsUpTo(AppStrs, MaxEntries) :
                            Len(x[1]) + Len(x[2]) + Len(x[3]) <= MaxEntries}}

Guideline(c, g) == [Id |-> <<"g", c, g>>, Title |-> <<"gt", c, g>>]

Category(c, n) == [Id |-> <<"cat", c>>, Guidelines |-> [g \in 1..n |-> Guideline(c, g)]]

\* numbers of guidelines of the categories of a document: a category weighs its
\* number of guidelines, one without guidelines weighs 1
RECURSIVE CategoryShapes(_)
CategoryShapes(budget) ==
    {<<>>} \cup
    UNION {{<<n>> \o rest : rest \in CategoryShapes(budget - (IF n = 0 THEN 1 ELSE n))} :
           n \in IF budget = 0 THEN {} ELSE 0..budget}

CategorySeqs ==
    {[c \in 1..Len(shape) |-> Category(c, shape[c])] : shape \in CategoryShapes(MaxGuidelines)}

GuidanceDocument(app, cats) ==
    [Metadata |-> [Id |-> "guidance", Applicability |-> app], Categories |-> cats]

\* the zero value &layer1.GuidanceDocument{}
EmptyDoc == GuidanceDocument(NilApplicability, <<>>)

GuidanceDocs == {GuidanceDocument(app, cats) : app \in Applicabilities, cats \in CategorySeqs}

----------------------------------------------------------------------------
(* Guidance filter: handleImportGuidelinesByCriteria after the load *)

\* the loop over one applicability set with its break on the first equal entry
found(entries, criterion) == \E i \in 1..Len(entries) : EqualFold(entries[i], criterion)

\* matches without the else branch for a document that has no applicability
matchesNilOpen(d, p) ==
    LET app == d.Metadata.Applicability
    IN IF ~app.isNil
       THEN /\ (p.Technology # EmptyStr => found(app.TechnologyDomains, p.Technology))
            /\ (p.Sector # EmptyStr => found(app.IndustrySectors, p.Sector))
            /\ (p.Jurisdiction # EmptyStr => found(app.Jurisdictions, p.Jurisdiction))
       ELSE TRUE

\* matches with the criteria combined by or
matchesAny(d, p) ==
    LET app == d.Metadata.Applicability
    IN IF ~app.isNil
       THEN \/ (p.Technology # EmptyStr /\ found(app.TechnologyDomains, p.Technology))
            \/ (p.Sector # EmptyStr /\ found(app.IndustrySectors, p.Sector))
            \/ (p.Jurisdiction # EmptyStr /\ found(app.Jurisdictions, p.Jurisdiction))
            \/ (p.Technology = EmptyStr /\ p.Sector = EmptyStr /\ p.Jurisdiction = EmptyStr)
       ELSE ~(p.Technology # EmptyStr \/ p.Sector # EmptyStr \/ p.Jurisdiction # EmptyStr)

\* the value of matches for a guideline of document d: it reads only the document's
\* applicability and the criteria
matches(d, p) ==
    LET app == d.Metadata.Applicability
    IN IF ~app.isNil
       THEN /\ (p.Technology # EmptyStr => found(app.TechnologyDomains, p.Technology))
            /\ (p.Sector # EmptyStr => found(app.IndustrySectors, p.Sector))
            /\ (p.Jurisdiction # EmptyStr => found(app.Jurisdictions, p.Jurisdiction))
       ELSE ~(p.Technology # EmptyStr \/ p.Sector # EmptyStr \/ p.Jurisdiction # EmptyStr)

matchingGuidelines(d, p, category) ==
    SelectSeq(category.Guidelines, LAMBDA guideline : matches(d, p))

\* filteredCategories without the test len(matchingGuidelines) > 0
RECURSIVE filteredCategoriesKeepEmpty(_, _, _)
filteredCategoriesKeepEmpty(d, p, cats) ==
    IF cats = <<>> THEN <<>>
    ELSE <<[Head(cats) EXCEPT !.Guidelines = matchingGuidelines(d, p, Head(cats))]>>
         \o filteredCategoriesKeepEmpty(d, p, Tail(cats))

RECURSIVE filteredCategories(_, _, _)
filteredCategories(d, p, cats) ==
    IF cats = <<>> THEN <<>>
    ELSE LET mg == matchingGuidelines(d, p, Head(cats))
         IN (IF Len(mg) > 0 THEN <<[Head(cats) EXCEPT !.Guidelines = mg]>> ELSE <<>>)
            \o filteredCategories(d, p, Tail(cats))

\* filteredDoc built from the categories alone, not copied from *doc
filteredDocWithoutMetadata(d, p) ==
    [EmptyDoc EXCEPT !.Categories = filteredCategories(d, p, d.Categories)]

filteredDoc(d, p) == [d EXCEPT !.Categories = filteredCategories(d, p, d.Categories)]

\* a filter that stores the kept categories in the document it loaded
docFilteredInPlace(d, p) == filteredDoc(d, p)

\* *doc when the filter has built its result: filteredCategory := category and
\* filteredDoc := *doc copy the structs, and the filter assigns to the copies only
docAfterFilter(d, p) == d

----------------------------------------------------------------------------
(* Control catalogs *)

\* guideline references of the catalogs: the id of the first guideline of a document's
\* first category, and an id of no guideline
RefIds == {<<"g", 1, 1>>, <<"zz", 0, 0>>}

Entry(r) == [ReferenceId |-> r]

MappingBlock(rs) == [ReferenceId |-> "guidance", Entries |-> [i \in 1..Len(rs) |-> Entry(rs[i])]]

\* a mapping block weighs its number of entries, an empty one weighs 1
RECURSIVE MappingSeqs(_)
MappingSeqs(budget) ==
    {<<>>} \cup
    UNION {{<<MappingBlock(rs)>> \o rest :
               rest \in MappingSeqs(budget - (IF Len(rs) = 0 THEN 1 ELSE Len(rs)))} :
           rs \in IF budget = 0 THEN {} ELSE SeqsUpTo(RefIds, budget)}

Weight(ms) == IF ms = <<>> THEN 0
              ELSE LET w == [i \in 1..Len(ms) |->
                               IF Len(ms[i].Entries) = 0 THEN 1 ELSE Len(ms[i].Entries)]
                       sum[i \in 0..Len(ms)] == IF i = 0 THEN 0 ELSE sum[i - 1] + w[i]
                   IN sum[Len(ms)]

\* the guideline mappings of n controls, of total weight at most budget
RECURSIVE MappingsOfControls(_, _)
MappingsOfControls(n, budget) ==
    IF n = 0 THEN {<<>>}
    ELSE UNION {{<<ms>> \o rest : rest \in MappingsOfControls(n - 1, budget - Weight(ms))} :
                ms \in MappingSeqs(budget)}

Requirement(apps) == [Id |-> "ar", Applicability |-> apps]

Control(f, k, reqs, ms) ==
    [Id |-> <<"ctl", f, k>>, Title |-> <<"title", f, k>>, Objective |-> <<"objective", f, k>>,
     AssessmentRequirements |-> reqs, GuidelineMappings |-> ms]

\* numbers of controls of the families of a catalog: MaxControls bounds the families
\* and the controls of the catalog
FamilyShapes ==
    {shape \in SeqsUpTo(0..MaxControls, MaxControls) :
        LET sum[i \in 0..Len(shape)] == IF i = 0 THEN 0 ELSE sum[i - 1] + shape[i]
        IN sum[Len(shape)] <= MaxControls}

ShapeSum(shape, f) ==
    LET sum[i \in 0..Len(shape)] == IF i = 0 THEN 0 ELSE sum[i - 1] + shape[i]
    IN sum[f]

\* the catalog of the given shape whose n-th control (in catalog order) has the
\* requirements reqs[n] and the guideline mappings ms[n]
Catalog(appCats, shape, reqs, ms) ==
    [Metadata |-> [Id |-> "catalog",
                   ApplicabilityCategories |-> [i \in 1..Len(appCats) |-> [Id |-> appCats[i]]]],
     ControlFamilies |->
        [f \in 1..Len(shape) |->
            [Id |-> <<"fam", f>>,
             Controls |-> [k \in 1..shape[f] |->
                             Control(f, k, reqs[ShapeSum(shape, f - 1) + k],
                                     ms[ShapeSum(shape, f - 1) + k])]]]]

\* the zero value &layer2.Catalog{}
EmptyCatalog == Catalog(<<>>, <<>>, <<>>, <<>>)

\* catalogs for the synthesizer, which reads the controls' guideline mappings only
SynthCatalogs ==
    UNION {{Catalog(<<>>, shape, [n \in 1..ShapeSum(shape, Len(shape)) |-> <<>>], ms) :
               ms \in MappingsOfControls(ShapeSum(shape, Len(shape)), MaxRefs)} :
           shape \in FamilyShapes}

\* the assessment requirements of one control: a requirement weighs its number of
\* applicability entries, one without entries weighs 1
RECURSIVE RequirementSeqs(_)
RequirementSeqs(budget) ==
    {<<>>} \cup
    UNION {{<<Requirement(apps)>> \o rest :
               rest \in RequirementSeqs(budget - (IF Len(apps) = 0 THEN 1 ELSE Len(apps)))} :
           apps \in IF budget = 0 THEN {} ELSE SeqsUpTo(AppStrs, budget)}

RequirementWeight(rs) ==
    IF rs = <<>> THEN 0
    ELSE LET w == [i \in 1..Len(rs) |->
                     IF Len(rs[i].Applicability) = 0 THEN 1 ELSE Len(rs[i].Applicability)]
             sum[i \in 0..Len(rs)] == IF i = 0 THEN 0 ELSE sum[i - 1] + w[i]
         IN sum[Len(rs)]

\* the assessment requirements of n controls, of total weight at most budget
RECURSIVE RequirementsOfControls(_, _)
RequirementsOfControls(n, budget) ==
    IF n = 0 THEN {<<>>}
    ELSE UNION {{<<rs>> \o rest :
                    rest \in RequirementsOfControls(n - 1, budget - RequirementWeight(rs))} :
                rs \in RequirementSeqs(budget)}

\* catalogs for the control filter, which reads the catalog's applicability categories
\* and the applicability of the controls' assessment requirements: MaxEntries bounds
\* the categories and the requirements' entries of a catalog together
FilterCatalogs ==
    UNION {UNION {{Catalog(appCats, shape, reqs,
                           [n \in 1..ShapeSum(shape, Len(shape)) |-> <<>>]) :
                      reqs \in RequirementsOfControls(ShapeSum(shape, Len(shape)),
                                                      MaxEntries - Len(appCats))} :
                  appCats \in SeqsUpTo(AppStrs, MaxEntries)} :
           shape \in FamilyShapes}

----------------------------------------------------------------------------
(* Control filter: handleImportControlsByLabel after the load *)

\* a lookup set that holds the first label only
labelMapOfFirstLabel(labels) == IF labels = <<>> THEN {} ELSE {ToLower(labels[1])}

\* labelMap: the keys that map to true
labelMap(labels) == {ToLower(labels[i]) : i \in 1..Len(labels)}

\* matches without the look at the catalog's applicability categories
controlMatchesRequirementsOnly(c, lm, control) ==
    \E r \in 1..Len(control.AssessmentRequirements) :
       \E a \in 1..Len(control.AssessmentRequirements[r].Applicability) :
          ToLower(control.AssessmentRequirements[r].Applicability[a]) \in lm

\* matches with a look at the first assessment requirement only
controlMatchesFirstRequirement(c, lm, control) ==
    \/ /\ Len(control.AssessmentRequirements) > 0
       /\ \E a \in 1..Len(control.AssessmentRequirements[1].Applicability) :
             ToLower(control.AssessmentRequirements[1].Applicability[a]) \in lm
    \/ /\ Len(c.Metadata.ApplicabilityCategories) > 0
       /\ \E i \in 1..Len(c.Metadata.ApplicabilityCategories) :
             ToLower(c.Metadata.ApplicabilityCategories[i].Id) \in lm

\* the value of matches for a control
controlMatches(c, lm, control) ==
    \/ \E r \in 1..Len(control.AssessmentRequirements) :
          \E a \in 1..Len(control.AssessmentRequirements[r].Applicability) :
             ToLower(control.AssessmentRequirements[r].Applicability[a]) \in lm
    \/ /\ Len(c.Metadata.ApplicabilityCategories) > 0
       /\ \E i \in 1..Len(c.Metadata.ApplicabilityCategories) :
             ToLower(c.Metadata.ApplicabilityCategories[i].Id) \in lm

\* matchingControls with each matching control put in front of the earlier ones
RECURSIVE prependMatching(_, _, _)
prependMatching(c, lm, controls) ==
    IF controls = <<>> THEN <<>>
    ELSE prependMatching(c, lm, Tail(controls))
         \o (IF controlMatches(c, lm, Head(controls)) THEN <<Head(controls)>> ELSE <<>>)

matchingControlsPrepended(c, lm, family) == prependMatching(c, lm, family.Controls)

matchingControls(c, lm, family) ==
    SelectSeq(family.Controls, LAMBDA control : controlMatches(c, lm, control))

RECURSIVE filteredFamilies(_, _, _)
filteredFamilies(c, lm, fams) ==
    IF fams = <<>> THEN <<>>
    ELSE LET mc == matchingControls(c, lm, Head(fams))
         IN (IF Len(mc) > 0 THEN <<[Head(fams) EXCEPT !.Controls = mc]>> ELSE <<>>)
            \o filteredFamilies(c, lm, Tail(fams))

\* filteredCatalog built from the families alone, not copied from *catalog
filteredCatalogWithoutMetadata(c, labels) ==
    [ControlFamilies |-> filteredFamilies(c, labelMap(labels), c.ControlFamilies),
     Metadata |-> [Id |-> "", ApplicabilityCategories |-> <<>>]]

filteredCatalog(c, labels) ==
    [c EXCEPT !.ControlFamilies =
        filteredFamilies(c, labelMap(labels), c.ControlFamilies)]

\* *catalog when the filter has built its result: filteredFamily := family and
\* filteredCatalog := *catalog copy the structs, and the filter assigns to the copies only
catalogAfterFilter(c, labels) == c

----------------------------------------------------------------------------
(* Modifier synthesis: handleCreateLayer3ControlModifiers after the loads *)

\* guidelineMap: the ids that are keys of the map
guidelineMap(guidelinesDoc) ==
    UNION {{guidelinesDoc.Categories[c].Guidelines[g].Id :
               g \in 1..Len(guidelinesDoc.Categories[c].Guidelines)} :
           c \in 1..Len(guidelinesDoc.Categories)}

\* a modifier that takes its title from the guideline <<"g", 1, 1>>
modifierTitledByGuideline(control, p) ==
    [TargetId |-> control.Id, ModType |-> p.ModificationType,
     ModificationRationale |-> p.ModificationRationale,
     Title |-> Guideline(1, 1).Title, Objective |-> control.Objective]

modifier(control, p) ==
    [TargetId |-> control.Id, ModType |-> p.ModificationType,
     ModificationRationale |-> p.ModificationRationale,
     Title |-> control.Title, Objective |-> control.Objective]

\* the loop over one mapping's entries when it looks at the first entry only
modifiersOfMappingFirstEntry(gm, control, p, m) ==
    IF Len(m.Entries) > 0 /\ m.Entries[1].ReferenceId \in gm
    THEN <<modifier(control, p)>>
    ELSE <<>>

\* the modifiers the loop over one mapping's entries appends: one at the first entry
\* whose ReferenceId is a key of guidelineMap, where the break leaves that loop
modifiersOfMapping(gm, control, p, m) ==
    IF \E e \in 1..Len(m.Entries) : m.Entries[e].ReferenceId \in gm
    THEN <<modifier(control, p)>>
    ELSE <<>>

\* the modifiers the loop over a control's GuidelineMappings appends
modifiersOfControl(gm, control, p) ==
    Flatten([m \in 1..Len(control.GuidelineMappings) |->
                modifiersOfMapping(gm, control, p, control.GuidelineMappings[m])])

modifiersOfFamily(gm, family, p) ==
    Flatten([k \in 1..Len(family.Controls) |-> modifiersOfControl(gm, family.Controls[k], p)])

controlModifiers(guidelinesDoc, controlsCatalog, p) ==
    Flatten([f \in 1..Len(controlsCatalog.ControlFamilies) |->
                modifiersOfFamily(guidelineMap(guidelinesDoc),
                                  controlsCatalog.ControlFamilies[f], p)])

EmptyScope == [Technologies |-> <<>>, Geopolitical |-> <<>>, Sensitivity |-> <<>>]

\* a Mapping that refers to the guidance document
mappingReferencingGuidance(guidelinesDoc, controlsCatalog, p) ==
    [ReferenceId |-> guidelinesDoc.Metadata.Id,
     ControlModifications |-> controlModifiers(guidelinesDoc, controlsCatalog, p),
     InScope |-> EmptyScope,
     OutOfScope |-> EmptyScope,
     AssessmentRequirementModifications |-> <<>>,
     GuidelineModifications |-> <<>>]

mapping(guidelinesDoc, controlsCatalog, p) ==
    [ReferenceId |-> controlsCatalog.Metadata.Id,
     ControlModifications |-> controlModifiers(guidelinesDoc, controlsCatalog, p),
     InScope |-> EmptyScope,
     OutOfScope |-> EmptyScope,
     AssessmentRequirementModifications |-> <<>>,
     GuidelineModifications |-> <<>>]

----------------------------------------------------------------------------
(* Requests and responses *)

ToolGuidance == "import_guidelines_by_criteria"
ToolControls == "import_controls_by_label"
ToolSynth == "create_layer3_control_modifiers"

\* the argument a request carries under a name, the zero value when it carries none
Arg(a, name, zero) == IF name \in DOMAIN a.fields THEN a.fields[name] ELSE zero

\* request.BindArguments(&params): the arguments are decoded into the handler's struct;
\* a value of the wrong JSON type is an error, a missing one leaves the zero value
BindArguments(t, a) ==
    [err |-> a.bad,
     params |->
        [FilePath |-> IF t \in {ToolGuidance, ToolControls}
                      THEN Arg(a, "file_path", EmptyStr) ELSE EmptyStr,
         Technology |-> IF t = ToolGuidance THEN Arg(a, "technology", EmptyStr) ELSE EmptyStr,
         Sector |-> IF t = ToolGuidance THEN Arg(a, "sector", EmptyStr) ELSE EmptyStr,
         Jurisdiction |-> IF t = ToolGuidance THEN Arg(a, "jurisdiction", EmptyStr)
                          ELSE EmptyStr,
         Labels |-> IF t = ToolControls THEN Arg(a, "labels", <<>>) ELSE <<>>,
         GuidelinesFile |-> IF t = ToolSynth THEN Arg(a, "guidelines_file", EmptyStr)
                            ELSE EmptyStr,
         ControlsFile |-> IF t = ToolSynth THEN Arg(a, "controls_file", EmptyStr)
                          ELSE EmptyStr,
         ModificationRationale |-> IF t = ToolSynth THEN Arg(a, "modification_rationale", "")
                                   ELSE "",
         ModificationType |-> IF t = ToolSynth THEN Arg(a, "modification_type", "") ELSE ""]]

ZeroParams == BindArguments("", [bad |-> FALSE, fields |-> <<>>]).params

NoContent == [kind |-> "none", value |-> <<>>]

NilResult == [isNil |-> TRUE, IsError |-> FALSE, Text |-> "", Detail |-> <<>>,
              StructuredContent |-> NoContent]

\* the handler has not returned
NoResp == [result |-> NilResult, err |-> "none"]

\* an error returned to the transport: return nil, err
errorPropagated(text, detail) == [result |-> NilResult, err |-> text]

\* return &mcp.CallToolResult{Content: ..., IsError: true}, nil
errorResult(text, detail) ==
    [result |-> [isNil |-> FALSE, IsError |-> TRUE, Text |-> text, Detail |-> detail,
                 StructuredContent |-> NoContent],
     err |-> "nil"]

\* json.MarshalIndent of a document, catalog or mapping: these hold strings and
\* sequences only, which always encode
MarshalIndent(v) == [err |-> FALSE, json |-> v]

\* handlers that answer a result without categories, families or modifiers with an
\* error
marshalUnlessEmpty(kind, v) ==
    IF \/ kind = "GuidanceDocument" /\ v.Categories = <<>>
       \/ kind = "Catalog" /\ v.ControlFamilies = <<>>
       \/ kind = "Mapping" /\ v.ControlModifications = <<>>
    THEN errorResult("Nothing matched", <<>>)
    ELSE [result |-> [isNil |-> FALSE, IsError |-> FALSE, Text |-> "json", Detail |-> <<>>,
                      StructuredContent |-> [kind |-> kind, value |-> v]],
          err |-> "nil"]

\* the handlers' last statements: encode the value and return it as text and as
\* structured content
marshalAndReturn(kind, v) ==
    LET m == MarshalIndent(v)
    IN IF m.err THEN errorResult("Error marshaling to JSON", <<>>)
       ELSE [result |-> [isNil |-> FALSE, IsError |-> FALSE, Text |-> "json", Detail |-> <<>>,
                         StructuredContent |-> [kind |-> kind, value |-> m.json]],
             err |-> "nil"]

----------------------------------------------------------------------------
(* The requests of the model *)

RefBareAbs == <<"/", "d", ".", "y", "a", "m", "l">>
RefBareJson == <<"d", ".", "j", "s", "o", "n">>
RefColon == <<":", "d">>
RefFileYaml == <<"f", "i", "l", "e", ":", "/", "/", "/", "d", ".", "y", "a", "m", "l">>
RefFileJson == <<"f", "i", "l", "e", ":", "/", "/", "/", "d", ".", "j", "s", "o", "n">>
RefHttp == <<"h", "t", "t", "p", ":", "/", "/", "h", "/", "d">>
RefHttps == <<"h", "t", "t", "p", "s", ":", "/", "/", "h", "/", "d">>
RefFtp == <<"f", "t", "p", ":", "/", "/", "h", "/", "d">>
RefCatalog == <<"c", ".", "y", "a", "m", "l">>

BarePaths == {RefBareAbs, RefBareJson, RefColon}
FileUris == {RefFileYaml, RefFileJson}
HttpUris == {RefHttp, RefHttps}
GuidanceRefs == BarePaths \cup FileUris \cup HttpUris \cup {RefFtp}

\* what the file a reference names holds: nothing (it cannot be opened), a document in
\* YAML block syntax, a document in JSON (which a YAML decoder reads too), or neither
FileKinds == {"missing", "yaml", "json", "garbage"}

\* the states of the files a request names: a reference that names no file finds none
Envs(guidanceRef, catalogRef) ==
    {[file |-> f, catalog |-> c] :
        f \in IF guidanceRef \in BarePaths \cup FileUris THEN FileKinds ELSE {"missing"},
        c \in IF catalogRef = RefCatalog THEN {"ok", "err"} ELSE {"err"}}

NoEnv == [file |-> "missing", catalog |-> "err"]

\* the arguments of a request: the named ones among the given values
Fields(names, values) == [n \in names |-> values[n]]

OptionalSubsets(always, optional) == {always \cup o : o \in SUBSET optional}

GuidanceRequests(refs, crits, kinds) ==
    UNION {{[tool |-> ToolGuidance, env |-> e,
             args |-> [bad |-> FALSE,
                       fields |-> [file_path |-> x[1], technology |-> x[2],
                                   sector |-> x[3], jurisdiction |-> x[4]]]] :
               e \in {v \in Envs(x[1], EmptyStr) : v.file \in kinds}} :
           x \in refs \X crits \X crits \X crits}

\* requests that leave out arguments or carry one of the wrong type
PartialGuidanceRequests ==
    {[tool |-> ToolGuidance, env |-> NoEnv,
      args |-> [bad |-> b, fields |-> Fields(names, [technology |-> StrUs])]] :
        b \in BOOLEAN, names \in SUBSET {"technology"}}

PartialControlsRequests ==
    UNION {{[tool |-> ToolControls, env |-> e,
             args |-> [bad |-> b,
                       fields |-> Fields(names, [file_path |-> RefCatalog, labels |-> ls])]] :
               b \in BOOLEAN, ls \in {<<>>, <<StrUs>>},
               e \in Envs(EmptyStr, IF "file_path" \in names THEN RefCatalog ELSE EmptyStr)} :
           names \in SUBSET {"file_path", "labels"}}

PartialSynthRequests ==
    UNION {{[tool |-> ToolSynth, env |-> e,
             args |-> [bad |-> b,
                       fields |-> Fields(names, [guidelines_file |-> RefFileYaml,
                                                 controls_file |-> RefCatalog,
                                                 modification_rationale |-> "harmonize",
                                                 modification_type |-> "add"])]] :
               b \in BOOLEAN,
               e \in {v \in Envs(IF "guidelines_file" \in names THEN RefFileYaml
                                  ELSE EmptyStr,
                                  IF "controls_file" \in names THEN RefCatalog
                                  ELSE EmptyStr) :
                         v.file \in {"missing", "yaml"}}} :
           names \in SUBSET {"guidelines_file", "controls_file", "modification_rationale",
                              "modification_type"}}

SynthRequests(refs, kinds, types) ==
    UNION {{[tool |-> ToolSynth, env |-> e,
             args |-> [bad |-> FALSE,
                       fields |-> Fields(names, [guidelines_file |-> ref,
                                                 controls_file |-> RefCatalog,
                                                 modification_rationale |-> "harmonize",
                                                 modification_type |-> ty])]] :
               ty \in types,
               e \in {v \in Envs(ref, RefCatalog) : v.file \in kinds},
               names \in OptionalSubsets({"guidelines_file", "controls_file",
                                           "modification_rationale"},
                                          {"modification_type"})} :
           ref \in refs}

\* values of the labels argument
LabelStrs == {StrUs, Stru}

LabelLists == SeqsUpTo(LabelStrs, MaxLabels)

ControlsRequests(labelLists) ==
    {[tool |-> ToolControls, env |-> [file |-> "missing", catalog |-> "ok"],
      args |-> [bad |-> FALSE, fields |-> [file_path |-> RefCatalog, labels |-> labels]]] :
        labels \in labelLists}

MainDocs ==
    {GuidanceDocument(app, [c \in 1..Len(shape) |-> Category(c, shape[c])]) :
        app \in {NilApplicability,
                  [isNil |-> FALSE, TechnologyDomains |-> <<StrUS>>, IndustrySectors |-> <<>>,
                   Jurisdictions |-> <<>>]},
        shape \in {<<>>, <<1>>, <<0, 2>>}}

MainCatalogs ==
    {EmptyCatalog,
     Catalog(<<>>, <<1>>, <<<<Requirement(<<StrUS>>)>>>>,
             <<<<MappingBlock(<<<<"g", 1, 1>>>>)>>>>),
     Catalog(<<Stru>>, <<0, 1>>, <<<<>>>>,
             <<<<MappingBlock(<<<<"zz", 0, 0>>, <<"g", 1, 1>>>>),
                 MappingBlock(<<<<"g", 1, 1>>>>)>>>>)}

MainRequests ==
    GuidanceRequests(GuidanceRefs, {EmptyStr, StrUs}, FileKinds)
    \cup PartialGuidanceRequests \cup PartialControlsRequests \cup PartialSynthRequests
    \cup SynthRequests({RefBareAbs, RefHttp, RefFtp}, {"missing", "yaml"}, {"add"})

\* the values the tool's schema lists for modification_type
ModTypes == {"alter", "add", "remove"}

\* values of the modification_type argument: the empty string, a value of the schema's
\* list and a string that is not in the list
SuppliedTypes == {"", "remove", "replace"}

\* documents for the synthesizer, which reads the guidelines' ids only
SynthDocs == {d \in GuidanceDocs : d.Metadata.Applicability = NilApplicability}

----------------------------------------------------------------------------
(* The handlers *)

NoFirst == [has |-> FALSE, doc |-> EmptyDoc]

\* the locals of an invocation before its call and after its return
IdleLocals ==
    [pc |-> "idle", tool |-> "", args |-> [bad |-> FALSE, fields |-> <<>>], env |-> NoEnv,
     params |-> ZeroParams, doc |-> EmptyDoc, catalog |-> EmptyCatalog, ioLog |-> <<>>,
     resp |-> NoResp, first |-> NoFirst, cancelled |-> FALSE]

\* Start has not been called: no signal context, no listener, no channel
NotStarted ==
    [pc |-> "new", logFilePath |-> "", ctxDone |-> FALSE, listener |-> "none",
     listenErr |-> "none", errC |-> <<>>, branch |-> "none", recv |-> "none",
     ret |-> "none", events |-> <<>>]

Init ==
    /\ pc = "idle"
    /\ tool = ""
    /\ args = [bad |-> FALSE, fields |-> <<>>]
    /\ env = NoEnv
    /\ params = ZeroParams
    /\ doc = EmptyDoc
    /\ catalog = EmptyCatalog
    /\ ioLog = <<>>
    /\ resp = NoResp
    /\ first = NoFirst
    /\ cancelled = FALSE
    /\ parked = IdleLocals
    /\ srv = NotStarted

\* a tool call arrives
Call(requests) ==
    /\ pc = "idle"
    /\ \E r \in requests :
          /\ tool' = r.tool
          /\ args' = r.args
          /\ env' = r.env
    /\ pc' = "called"
    /\ UNCHANGED <<params, doc, catalog, ioLog, resp, first, cancelled, parked, srv>>

\* the reference of the guidance document of the running request
guidanceRef == IF tool = ToolGuidance THEN params.FilePath ELSE params.GuidelinesFile

catalogRef == IF tool = ToolControls THEN params.FilePath ELSE params.ControlsFile

guidanceLoadError == IF tool = ToolGuidance THEN "Error loading guidance document"
                     ELSE "Error loading guidelines document"

catalogLoadError == IF tool = ToolControls THEN "Error loading control catalog"
                    ELSE "Error loading controls catalog"

\* a handler that keeps an empty modification type
keepModificationType(p) == p

\* if params.ModificationType == "" { params.ModificationType = "alter" }
defaultModificationType(p) ==
    IF p.ModificationType = "" THEN [p EXCEPT !.ModificationType = "alter"] ELSE p

\* a handler without the test of the labels
noLabelsNeverRejected(p) == FALSE

\* if len(params.Labels) == 0: the request is answered without a load

noLabels(p) == Len(p.Labels) = 0

\* the handler up to its first load: BindArguments, the checks of the arguments and
\* the loader's choice by scheme
Enter ==
    /\ pc = "called"
    /\ LET b == BindArguments(tool, args)
           p == IF tool = ToolSynth THEN defaultModificationType(b.params) ELSE b.params
           to == loadLayer1Document(IF tool = ToolGuidance THEN p.FilePath
                                    ELSE p.GuidelinesFile)
       IN IF b.err
          THEN /\ resp' = errorResult("Error parsing arguments", <<>>)
               /\ pc' = "done"
               /\ UNCHANGED params
          ELSE /\ params' = p
               /\ IF tool = ToolControls
                  THEN IF noLabels(p)
                       THEN /\ resp' = errorResult("At least one label must be provided", <<>>)
                            /\ pc' = "done"
                       ELSE /\ pc' = "catio"
                            /\ UNCHANGED resp
                  ELSE IF to.to = "unsupported"
                       THEN /\ resp' = errorResult(guidanceLoadError,
                                                   <<"unsupported scheme", to.scheme>>)
                            /\ pc' = "done"
                       ELSE /\ pc' = IF to.to = "file" THEN "fileio" ELSE "http1"
                            /\ UNCHANGED resp
    /\ UNCHANGED <<tool, args, env, doc, catalog, ioLog, first, cancelled, parked, srv>>

\* no document was decoded
NoData == [isNil |-> TRUE]

\* an entry of the I/O log: the operation, its reference, the HTTP status of a
\* response and the document or catalog that was decoded from what was read
IO(op, ref, status, data) == [op |-> op, ref |-> ref, status |-> status, data |-> data]

\* the documents a successful decode can produce: the previous result when the
\* request filters it again
Decodable(docs) == IF first.has THEN {first.doc} ELSE docs

\* the handler after loadLayer1Document returned nil with document d
afterGuidanceLoad(d) ==
    IF tool = ToolGuidance
    THEN /\ resp' = marshalAndReturn("GuidanceDocument", filteredDoc(d, params))
         /\ doc' = docAfterFilter(d, params)
         /\ pc' = "done"
    ELSE /\ doc' = d
         /\ pc' = "catio"
         /\ UNCHANGED resp

\* a handler that goes on to the catalog after a failed guidance load
guidanceLoadPassedOver(detail) ==
    /\ pc' = "catio"
    /\ UNCHANGED <<doc, resp>>

\* the handler after loadLayer1Document returned an error
guidanceLoadFailed(detail) ==
    /\ resp' = errorResult(guidanceLoadError, detail)
    /\ pc' = "done"
    /\ UNCHANGED doc

\* a file loader that decodes YAML and, when that fails, JSON, whatever the extension
loadLayer1FromFileYamlThenJson(filePath, kind) ==
    IF kind = "missing" THEN <<"error opening file">>
    ELSE IF kind \in {"yaml", "json"} THEN <<>>
    ELSE <<"error decoding JSON">>

\* loadLayer1FromFile: what os.Open and the decoder chosen by extension return for
\* a file of the given kind
loadLayer1FromFile(filePath, kind) ==
    IF kind = "missing" THEN <<"error opening file">>
    ELSE IF FilepathExt(filePath) = ExtJson
    THEN IF kind = "json" THEN <<>> ELSE <<"error decoding JSON">>
    ELSE IF kind \in {"yaml", "json"} THEN <<>> ELSE <<"error decoding YAML">>

FileRead(docs) ==
    /\ pc = "fileio"
    /\ LET filePath == loadLayer1Document(guidanceRef).ref
           err == loadLayer1FromFile(filePath, env.file)
       IN IF err # <<>>
          THEN /\ ioLog' = Append(ioLog, IO("open", filePath, 0, NoData))
               /\ guidanceLoadFailed(err)
          ELSE \E d \in Decodable(docs) :
                  /\ ioLog' = Append(ioLog, IO("open", filePath, 0, d))
                  /\ afterGuidanceLoad(d)
    /\ UNCHANGED <<tool, args, env, params, catalog, first, cancelled, parked, srv>>

\* http.StatusOK
StatusOK == 200

\* what a GET can return: no response at all, or a status and a body
HttpOutcomes ==
    {[neterr |-> TRUE, status |-> 0, body |-> "garbage"]} \cup
    {[neterr |-> FALSE, status |-> st, body |-> b] :
        st \in {StatusOK, 404}, b \in {"yaml", "json", "garbage"}}

\* loadLayer1FromURL up to the end of the YAML decode of the first response
HttpGet1(docs) ==
    /\ pc = "http1"
    /\ \E o \in HttpOutcomes :
          LET get(data) == IO("get", loadLayer1Document(guidanceRef).ref, o.status, data)
          IN IF o.neterr
             THEN /\ ioLog' = Append(ioLog, get(NoData))
                  /\ guidanceLoadFailed(<<"failed to fetch URL">>)
             ELSE IF o.status # StatusOK
             THEN /\ ioLog' = Append(ioLog, get(NoData))
                  /\ guidanceLoadFailed(<<"failed to fetch URL; response status", o.status>>)
             ELSE IF o.body \in {"yaml", "json"}
             THEN \E d \in Decodable(docs) :
                     /\ ioLog' = Append(ioLog, get(d))
                     /\ afterGuidanceLoad(d)
             ELSE /\ ioLog' = Append(ioLog, get(NoData))
                  /\ pc' = "http2"
                  /\ UNCHANGED <<doc, resp>>
    /\ UNCHANGED <<tool, args, env, params, catalog, first, cancelled, parked, srv>>

\* loadLayer1FromURL after the YAML decode failed: the second GET and the JSON decode
HttpGet2(docs) ==
    /\ pc = "http2"
    /\ \E o \in HttpOutcomes :
          LET get(data) == IO("get", loadLayer1Document(guidanceRef).ref, o.status, data)
          IN IF o.neterr
             THEN /\ ioLog' = Append(ioLog, get(NoData))
                  /\ guidanceLoadFailed(<<"failed to fetch URL for JSON">>)
             ELSE IF o.body = "json"
             THEN \E d \in Decodable(docs) :
                     /\ ioLog' = Append(ioLog, get(d))
                     /\ afterGuidanceLoad(d)
             ELSE /\ ioLog' = Append(ioLog, get(NoData))
                  /\ guidanceLoadFailed(<<"error decoding JSON">>)
    /\ UNCHANGED <<tool, args, env, params, catalog, first, cancelled, parked, srv>>

\* the catalogs a successful LoadFile can produce: the previous result when the
\* request filters it again
DecodableCatalogs(catalogs) == IF first.has THEN {first.doc} ELSE catalogs

\* catalog.LoadFile and the rest of the control filter or of the synthesizer
CatalogLoad(catalogs) ==
    /\ pc = "catio"
    /\ IF env.catalog = "err"
       THEN /\ ioLog' = Append(ioLog, IO("loadfile", catalogRef, 0, NoData))
            /\ resp' = errorResult(catalogLoadError, <<"load error">>)
            /\ UNCHANGED catalog
       ELSE \E c \in DecodableCatalogs(catalogs) :
               /\ ioLog' = Append(ioLog, IO("loadfile", catalogRef, 0, c))
               /\ IF tool = ToolControls
                  THEN /\ resp' = marshalAndReturn("Catalog",
                                                   filteredCatalog(c, params.Labels))
                       /\ catalog' = catalogAfterFilter(c, params.Labels)
                  ELSE /\ resp' = marshalAndReturn("Mapping", mapping(doc, c, params))
                       /\ catalog' = c
    /\ pc' = "done"
    /\ UNCHANGED <<tool, args, env, params, doc, first, cancelled, parked, srv>>

\* the caller stores the document a guidance filter returned and sends the same
\* request again, now for the stored document
Refilter ==
    /\ pc = "done"
    /\ tool = ToolGuidance
    /\ ~resp.result.IsError
    /\ ~first.has
    /\ first' = [has |-> TRUE, doc |-> resp.result.StructuredContent.value]
    /\ env' = [env EXCEPT !.file = "json"]
    /\ pc' = "called"
    /\ params' = ZeroParams
    /\ doc' = EmptyDoc
    /\ ioLog' = <<>>
    /\ resp' = NoResp
    /\ cancelled' = FALSE
    /\ UNCHANGED <<tool, args, catalog, parked, srv>>

\* the caller stores the catalog a control filter returned and sends the same request
\* again, now for the stored catalog
RefilterCatalog ==
    /\ pc = "done"
    /\ tool = ToolControls
    /\ ~resp.result.IsError
    /\ ~first.has
    /\ first' = [has |-> TRUE, doc |-> resp.result.StructuredContent.value]
    /\ pc' = "called"
    /\ params' = ZeroParams
    /\ catalog' = EmptyCatalog
    /\ ioLog' = <<>>
    /\ resp' = NoResp
    /\ cancelled' = FALSE
    /\ UNCHANGED <<tool, args, env, doc, parked, srv>>

\* the response is delivered; the invocation's locals are gone
Return ==
    /\ pc = "done"
    /\ pc' = "idle"
    /\ tool' = ""
    /\ args' = [bad |-> FALSE, fields |-> <<>>]
    /\ env' = NoEnv
    /\ params' = ZeroParams
    /\ doc' = EmptyDoc
    /\ catalog' = EmptyCatalog
    /\ ioLog' = <<>>
    /\ resp' = NoResp
    /\ first' = NoFirst
    /\ cancelled' = FALSE
    /\ UNCHANGED <<parked, srv>>

\* the request context is done while the loader's read is in flight: the handlers
\* take ctx and never read it, and os.Open and http.Get take no context
Cancel ==
    /\ pc \in {"fileio", "http1", "http2"}
    /\ ~cancelled
    /\ cancelled' = TRUE
    /\ UNCHANGED <<pc, tool, args, env, params, doc, catalog, ioLog, resp, first, parked, srv>>

\* the locals of the running invocation: the handler's params, the documents it
\* allocated and loaded, and what it has done so far
Locals ==
    [pc |-> pc, tool |-> tool, args |-> args, env |-> env, params |-> params, doc |-> doc,
     catalog |-> catalog, ioLog |-> ioLog, resp |-> resp, first |-> first,
     cancelled |-> cancelled]

\* handlers that keep the loaded guidance document in a field of the server: an
\* invocation that runs again finds the document the other one left there
resumedWithServerDoc(own, running) == [own EXCEPT !.doc = running.doc]

\* what an invocation finds when it runs again: params, doc, catalog and the lookup
\* maps are variables of its handler's frame (var params struct, doc :=
\* &layer1.GuidanceDocument{}, labelMap := make(...)), so it finds what it left
resumed(own, running) == own

\* the scheduler stops the running invocation and runs the overlapping one
Switch ==
    /\ LET r == resumed(parked, Locals)
       IN /\ pc' = r.pc
          /\ tool' = r.tool
          /\ args' = r.args
          /\ env' = r.env
          /\ params' = r.params
          /\ doc' = r.doc
          /\ catalog' = r.catalog
          /\ ioLog' = r.ioLog
          /\ resp' = r.resp
          /\ first' = r.first
          /\ cancelled' = r.cancelled
    /\ parked' = Locals
    /\ UNCHANGED srv

----------------------------------------------------------------------------
(* Server.Start *)

\* config.LogFilePath: no log file, a path that opens, a path that does not open
LogFilePaths == {"", "/log", "/nodir/log"}

\* make(chan error, 1)
ErrCCapacity == 1

\* Start is called: signal.NotifyContext and server.NewStdioServer
StartCall ==
    /\ srv.pc = "new"
    /\ \E path \in LogFilePaths : srv' = [srv EXCEPT !.pc = "init", !.logFilePath = path]
    /\ UNCHANGED <<pc, tool, args, env, params, doc, catalog, ioLog, resp, first, cancelled,
                   parked>>

\* os.Interrupt or SIGTERM arrives: ctx is done; a Start that waits in its select
\* wakes on the case <-ctx.Done()
Signal ==
    /\ srv.pc \in {"init", "spawn", "running", "parked", "woken"}
    /\ ~srv.ctxDone
    /\ srv' = [srv EXCEPT !.ctxDone = TRUE,
                          !.events = Append(@, "signal"),
                          !.pc = IF @ = "parked" THEN "woken" ELSE @,
                          !.branch = IF srv.pc = "parked" THEN "ctx" ELSE @]
    /\ UNCHANGED <<pc, tool, args, env, params, doc, catalog, ioLog, resp, first, cancelled,
                   parked>>

\* the log output is chosen: a log file that does not open ends Start
OpenLogFile ==
    /\ srv.pc = "init"
    /\ srv' = IF srv.logFilePath = "/nodir/log"
              THEN [srv EXCEPT !.pc = "returned", !.ret = "failed to open log file"]
              ELSE [srv EXCEPT !.pc = "spawn"]
    /\ UNCHANGED <<pc, tool, args, env, params, doc, catalog, ioLog, resp, first, cancelled,
                   parked>>

\* errC := make(chan error, 1) and the go statement; Start goes on to its Fprintf
Spawn ==
    /\ srv.pc = "spawn"
    /\ srv' = [srv EXCEPT !.pc = "running", !.listener = "listening"]
    /\ UNCHANGED <<pc, tool, args, env, params, doc, catalog, ioLog, resp, first, cancelled,
                   parked>>

\* stdioServer.Listen returns in the goroutine: with nil or with an error, at the end
\* of the input or after ctx is done
ListenReturn ==
    /\ srv.listener = "listening"
    /\ \E e \in {"nil", "err"} :
          srv' = [srv EXCEPT !.listener = "sending", !.listenErr = e]
    /\ UNCHANGED <<pc, tool, args, env, params, doc, catalog, ioLog, resp, first, cancelled,
                   parked>>

\* errC <- the result of Listen: handed to a Start that waits in its select, put in
\* the channel's buffer otherwise; the send waits while the buffer is full, and the
\* goroutine finishes after it
ListenSend ==
    /\ srv.listener = "sending"
    /\ IF srv.pc = "parked"
       THEN srv' = [srv EXCEPT !.listener = "exited", !.pc = "woken", !.branch = "errC",
                               !.recv = srv.listenErr, !.events = Append(@, "finished")]
       ELSE /\ Len(srv.errC) < ErrCCapacity
            /\ srv' = [srv EXCEPT !.listener = "exited", !.errC = Append(@, srv.listenErr),
                                  !.events = Append(@, "finished")]
    /\ UNCHANGED <<pc, tool, args, env, params, doc, catalog, ioLog, resp, first, cancelled,
                   parked>>

\* Start reaches its select: it takes one of the cases that are ready, any of them
\* when both are, and waits when none is
Select ==
    /\ srv.pc = "running"
    /\ \/ /\ srv.ctxDone
          /\ srv' = [srv EXCEPT !.pc = "woken", !.branch = "ctx"]
       \/ /\ srv.errC # <<>>
          /\ srv' = [srv EXCEPT !.pc = "woken", !.branch = "errC", !.recv = Head(srv.errC),
                                !.errC = Tail(@)]
       \/ /\ ~srv.ctxDone /\ srv.errC = <<>>
          /\ srv' = [srv EXCEPT !.pc = "parked"]
    /\ UNCHANGED <<pc, tool, args, env, params, doc, catalog, ioLog, resp, first, cancelled,
                   parked>>

\* the value Start returns from the case its select took
startResult(branch, err) ==
    IF branch = "errC" /\ err # "nil" THEN "error running server" ELSE "nil"

\* the body of the case the select took, and the return
StartReturn ==
    /\ srv.pc = "woken"
    /\ srv' = [srv EXCEPT !.pc = "returned", !.ret = startResult(srv.branch, srv.recv)]
    /\ UNCHANGED <<pc, tool, args, env, params, doc, catalog, ioLog, resp, first, cancelled,
                   parked>>

\* the listener reads a tool call from its input
Serve(requests) ==
    /\ srv.listener = "listening"
    /\ Call(requests)

Next ==
    \/ Call(MainRequests)
    \/ Enter
    \/ FileRead(MainDocs)
    \/ HttpGet1(MainDocs)
    \/ HttpGet2(MainDocs)
    \/ CatalogLoad(MainCatalogs)
    \/ Refilter
    \/ Return

Spec == Init /\ [][Next]_vars

\* the guidance filter over all documents and criteria of the bounds
NextGuidance ==
    \/ Call(GuidanceRequests({RefFileYaml}, CritStrs, {"yaml"}))
    \/ Enter
    \/ FileRead(GuidanceDocs)
    \/ Refilter
    \/ Return

SpecGuidance == Init /\ [][NextGuidance]_vars

\* the synthesizer over all documents and catalogs of the bounds
NextSynth ==
    \/ Call(SynthRequests({RefFileYaml}, {"yaml"}, SuppliedTypes))
    \/ Enter
    \/ FileRead(SynthDocs)
    \/ CatalogLoad(SynthCatalogs)
    \/ Return

SpecSynth == Init /\ [][NextSynth]_vars

\* the control filter over all catalogs and label lists of the bounds
NextControls ==
    \/ Call(ControlsRequests(LabelLists))
    \/ Enter
    \/ CatalogLoad(FilterCatalogs)
    \/ RefilterCatalog
    \/ Return

SpecControls == Init /\ [][NextControls]_vars

\* both filters over all their documents, catalogs, criteria and label lists
NextFilters ==
    \/ Call(GuidanceRequests({RefFileYaml}, CritStrs, {"yaml"})
              \cup ControlsRequests(LabelLists))
    \/ Enter
    \/ FileRead(GuidanceDocs)
    \/ CatalogLoad(FilterCatalogs)
    \/ Refilter
    \/ Return

SpecFilters == Init /\ [][NextFilters]_vars

\* the three operations, each over all its inputs of the bounds
NextOperations ==
    \/ Call(GuidanceRequests({RefFileYaml}, CritStrs, {"yaml"})
              \cup ControlsRequests(LabelLists)
              \cup SynthRequests({RefFileYaml}, {"yaml"}, SuppliedTypes))
    \/ Enter
    \/ FileRead(IF tool = ToolSynth THEN SynthDocs ELSE GuidanceDocs)
    \/ CatalogLoad(IF tool = ToolSynth THEN SynthCatalogs ELSE FilterCatalogs)
    \/ Refilter
    \/ Return

SpecOperations == Init /\ [][NextOperations]_vars

\* Start, its listener and the tool calls the listener serves
NextStart ==
    \/ StartCall
    \/ OpenLogFile
    \/ Spawn
    \/ Signal
    \/ ListenReturn
    \/ ListenSend
    \/ Select
    \/ StartReturn
    \/ Serve(ControlsRequests({<<>>, <<StrUs>>}))
    \/ Enter
    \/ CatalogLoad(MainCatalogs)
    \/ Return

SpecStart == Init /\ [][NextStart]_vars

\* the invocations of Spec, each of which may be cancelled during a read of the loader
NextCancel ==
    \/ Call(MainRequests)
    \/ Enter
    \/ FileRead(MainDocs)
    \/ HttpGet1(MainDocs)
    \/ HttpGet2(MainDocs)
    \/ CatalogLoad(MainCatalogs)
    \/ Cancel
    \/ Return

SpecCancel == Init /\ [][NextCancel]_vars

\* requests of two overlapping invocations: one per filter and the synthesizer's
OverlapRequests ==
    {r \in GuidanceRequests({RefFileYaml}, {EmptyStr, StrUs}, {"yaml"}) :
        r.args.fields.sector = EmptyStr /\ r.args.fields.jurisdiction = EmptyStr}
    \cup ControlsRequests({<<StrUs>>})
    \cup SynthRequests({RefFileYaml}, {"yaml"}, {"add"})

\* two invocations of the three operations, their steps interleaved in any order
NextOverlap ==
    \/ Call(OverlapRequests)
    \/ Enter
    \/ FileRead(MainDocs)
    \/ CatalogLoad(MainCatalogs)
    \/ Return
    \/ Switch

SpecOverlap == Init /\ [][NextOverlap]_vars

----------------------------------------------------------------------------
(* Properties *)

\* the handler has returned a response that is not flagged as an error
Succeeded == pc = "done" /\ ~resp.result.isNil /\ ~resp.result.IsError

\* the document, catalog or mapping of the response
Returned == resp.result.StructuredContent.value

Given(name) == name \in DOMAIN args.fields

\* C1: a Mapping returned by create_layer3_control_modifiers holds at most one
\* ControlModifier per control id, also when two or more guidelineMappings blocks of
\* a control each hold an entry whose referenceId is a guideline id.
C1_AtMostOneModifierPerControl ==
    (Succeeded /\ tool = ToolSynth) =>
        \A i, j \in 1..Len(Returned.ControlModifications) :
            Returned.ControlModifications[i].TargetId = Returned.ControlModifications[j].TargetId
                => i = j

\* C2 as claimed: import_guidelines_by_criteria with technology, sector and
\* jurisdiction all empty returns a document identical to the loaded one, also for a
\* document that has a category without guidelines.
C2_NoCriteriaReturnsInput ==
    (Succeeded /\ tool = ToolGuidance
       /\ params.Technology = EmptyStr /\ params.Sector = EmptyStr
       /\ params.Jurisdiction = EmptyStr)
    => Returned = doc

\* C2 as amended: with all three criteria empty the returned document has the
\* metadata of the loaded one and its categories that have at least one guideline,
\* in their order and each with its guidelines unchanged; categories without
\* guidelines are dropped.
C2_NoCriteriaKeepsNonEmptyCategories ==
    (Succeeded /\ tool = ToolGuidance
       /\ params.Technology = EmptyStr /\ params.Sector = EmptyStr
       /\ params.Jurisdiction = EmptyStr)
    => /\ Returned.Metadata = doc.Metadata
       /\ Returned.Categories = SelectSeq(doc.Categories, LAMBDA c : Len(c.Guidelines) > 0)

\* a document with an empty and a non-empty category was filtered without criteria
C2_Witness ==
    /\ Succeeded /\ tool = ToolGuidance /\ ~first.has
    /\ params.Technology = EmptyStr /\ params.Sector = EmptyStr
    /\ params.Jurisdiction = EmptyStr
    /\ \E i, j \in 1..Len(doc.Categories) :
          doc.Categories[i].Guidelines = <<>> /\ Len(doc.Categories[j].Guidelines) > 0
    /\ ~doc.Metadata.Applicability.isNil
    /\ Len(Returned.Categories) = 1

\* the file of kind k decodes with the decoder that the extension of ref selects
WellFormedFor(ref, k) ==
    IF FilepathExt(ref) = ExtJson THEN k = "json" ELSE k \in {"yaml", "json"}

\* C3: a bare filesystem path (no URI scheme) to a readable, well-formed guidance
\* document is accepted by the guidance filter and by modifier synthesis: the loader
\* does not answer with a load error.
C3_BarePathLoads ==
    (/\ pc = "done" /\ ~args.bad
     /\ \/ tool = ToolGuidance /\ Given("file_path") /\ args.fields.file_path \in BarePaths
        \/ tool = ToolSynth /\ Given("guidelines_file")
              /\ args.fields.guidelines_file \in BarePaths
     /\ WellFormedFor(guidanceRef, env.file))
    => ~(resp.result.IsError /\ resp.result.Text = guidanceLoadError)

RequiredArgs ==
    CASE tool = ToolGuidance -> {"file_path"}
      [] tool = ToolControls -> {"file_path", "labels"}
      [] tool = ToolSynth -> {"guidelines_file", "controls_file", "modification_rationale"}
      [] OTHER -> {}

\* C4: a request that lacks a required argument is answered with an error-flagged
\* response that carries a message; modifier synthesis without modification_rationale
\* returns no successful Mapping.
C4_MissingRequiredIsError ==
    (pc = "done" /\ \E name \in RequiredArgs : ~Given(name))
    => ~resp.result.isNil /\ resp.result.IsError /\ resp.result.Text # ""

\* C5: on every path of the three handlers (argument-binding error, usage error,
\* load error, success) the handler returns a response object and a nil error; a
\* failure shows only in the response's error flag and text.
C5_ResponseAndNilError ==
    pc = "done" =>
        /\ resp.err = "nil"
        /\ ~resp.result.isNil
        /\ (resp.result.IsError <=> resp.result.StructuredContent.kind = "none")
        /\ (resp.result.IsError => resp.result.Text # "")

\* a load error of the second fetch was answered
C5_Witness ==
    /\ pc = "done" /\ tool = ToolSynth
    /\ resp.result.IsError /\ resp.result.Detail = <<"error decoding JSON">>
    /\ Len(ioLog) > 1

\* C6: filtering the result of the guidance filter again with the same criteria
\* returns a document identical to that result.
C6_FilterIdempotent ==
    (Succeeded /\ tool = ToolGuidance /\ first.has) => Returned = first.doc

\* a result that kept guidelines under a criterion was filtered again
C6_Witness ==
    /\ Succeeded /\ tool = ToolGuidance /\ first.has
    /\ params.Jurisdiction # EmptyStr
    /\ first.doc.Categories # <<>>
    /\ doc = first.doc

\* the case-folded entries of an applicability set
Folded(entries) == {ToLower(entries[i]) : i \in 1..Len(entries)}

\* the guideline ids of a document
GuidelineIds(d) ==
    UNION {{d.Categories[c].Guidelines[g].Id : g \in 1..Len(d.Categories[c].Guidelines)} :
           c \in 1..Len(d.Categories)}

\* C7: a guideline is kept iff each non-empty criterion is, ignoring case, an element
\* of the corresponding applicability set of the document; the criteria combine by
\* and.
C7_KeptIffAllCriteriaPresent ==
    (Succeeded /\ tool = ToolGuidance) =>
        LET app == doc.Metadata.Applicability
            all == /\ (params.Technology # EmptyStr
                          => ToLower(params.Technology) \in Folded(app.TechnologyDomains))
                   /\ (params.Sector # EmptyStr
                          => ToLower(params.Sector) \in Folded(app.IndustrySectors))
                   /\ (params.Jurisdiction # EmptyStr
                          => ToLower(params.Jurisdiction) \in Folded(app.Jurisdictions))
        IN GuidelineIds(Returned) = IF all THEN GuidelineIds(doc) ELSE {}

\* a supplied technology is in its set, a supplied sector is not in its set, and the
\* guidelines of the document are rejected
C7_Witness ==
    /\ Succeeded /\ tool = ToolGuidance
    /\ params.Technology # EmptyStr
    /\ ToLower(params.Technology) \in Folded(doc.Metadata.Applicability.TechnologyDomains)
    /\ params.Sector # EmptyStr
    /\ doc.Metadata.Applicability.IndustrySectors # <<>>
    /\ GuidelineIds(doc) # {}
    /\ Returned.Categories = <<>>

\* C8: a document without applicability block, filtered with at least one non-empty
\* criterion, yields a document with zero categories.
C8_NoApplicabilityFailsClosed ==
    (Succeeded /\ tool = ToolGuidance /\ doc.Metadata.Applicability.isNil
       /\ (params.Technology # EmptyStr \/ params.Sector # EmptyStr
             \/ params.Jurisdiction # EmptyStr))
    => Returned.Categories = <<>>

\* a document with guidelines and no applicability block was filtered by a sector
C8_Witness ==
    /\ Succeeded /\ tool = ToolGuidance /\ doc.Metadata.Applicability.isNil
    /\ params.Sector # EmptyStr /\ params.Technology = EmptyStr
    /\ Len(doc.Categories) > 1 /\ GuidelineIds(doc) # {}
    /\ Returned.Categories = <<>>

\* the criteria, and the applicability entries of a document, in another letter case
CaseOfParams(p, F(_)) ==
    [p EXCEPT !.Technology = F(@), !.Sector = F(@), !.Jurisdiction = F(@)]

CaseOfDoc(d, F(_)) ==
    LET app == d.Metadata.Applicability
    IN [d EXCEPT !.Metadata.Applicability =
            [app EXCEPT !.TechnologyDomains = [i \in 1..Len(@) |-> F(@[i])],
                        !.IndustrySectors = [i \in 1..Len(@) |-> F(@[i])],
                        !.Jurisdictions = [i \in 1..Len(@) |-> F(@[i])]]]

\* every non-empty criterion has, in its set, an entry of its length that equals it
\* ignoring case
WholeStringMatch(d, p) ==
    LET app == d.Metadata.Applicability
        in(c, entries) == c # EmptyStr =>
            \E i \in 1..Len(entries) : Len(entries[i]) = Len(c) /\ ToLower(entries[i]) = ToLower(c)
    IN /\ in(p.Technology, app.TechnologyDomains)
       /\ in(p.Sector, app.IndustrySectors)
       /\ in(p.Jurisdiction, app.Jurisdictions)

\* C9: the result of the guidance filter does not change when the letter case of the
\* criteria or of the applicability entries changes, and a criterion matches an entry
\* only as a whole string: guidelines are kept only if every non-empty criterion
\* equals, ignoring case, an entry of the same length.
C9_CaseInsensitiveWholeString ==
    (Succeeded /\ tool = ToolGuidance) =>
        /\ filteredDoc(doc, CaseOfParams(params, ToUpper)).Categories = Returned.Categories
        /\ filteredDoc(doc, CaseOfParams(params, ToLower)).Categories = Returned.Categories
        /\ filteredDoc(CaseOfDoc(doc, ToUpper), params).Categories = Returned.Categories
        /\ filteredDoc(CaseOfDoc(doc, ToLower), params).Categories = Returned.Categories
        /\ (Returned.Categories # <<>> => WholeStringMatch(doc, params))

\* a criterion was matched by an entry in another letter case while a shorter entry
\* of the same set did not match it
C9_Witness ==
    /\ Succeeded /\ tool = ToolGuidance
    /\ params.Technology = StrUs
    /\ doc.Metadata.Applicability.TechnologyDomains = <<Stru, StrUS>>
    /\ Returned.Categories # <<>>

\* C10: the control filter answers a request without labels with the usage error and
\* loads no catalog for it.
C10_EmptyLabelsNoLoad ==
    (tool = ToolControls /\ ~args.bad /\ Arg(args, "labels", <<>>) = <<>>) =>
        /\ ioLog = <<>>
        /\ pc \in {"called", "done"}
        /\ (pc = "done" => /\ resp.result.IsError
                           /\ resp.result.Text = "At least one label must be provided")

\* a request with an empty label list for a catalog that would load was answered
C10_Witness ==
    /\ pc = "done" /\ tool = ToolControls /\ ~args.bad
    /\ Given("labels") /\ args.fields.labels = <<>>
    /\ Given("file_path") /\ env.catalog = "ok"
    /\ resp.result.IsError

----------------------------------------------------------------------------
(* Properties of the control filter and of both filters *)

\* an id of the catalog's applicabilityCategories equals a label, ignoring case
CatalogLevelMatch(c, labels) ==
    \E i \in 1..Len(c.Metadata.ApplicabilityCategories), l \in 1..Len(labels) :
       EqualFold(c.Metadata.ApplicabilityCategories[i].Id, labels[l])

\* an applicability entry of an assessment requirement of the control equals a label,
\* ignoring case
RequirementMatch(control, labels) ==
    \E r \in 1..Len(control.AssessmentRequirements), l \in 1..Len(labels) :
       \E a \in 1..Len(control.AssessmentRequirements[r].Applicability) :
          EqualFold(control.AssessmentRequirements[r].Applicability[a], labels[l])

\* the controls of a catalog, in whatever family
ControlsOf(c) ==
    UNION {{c.ControlFamilies[f].Controls[k] : k \in 1..Len(c.ControlFamilies[f].Controls)} :
           f \in 1..Len(c.ControlFamilies)}

ControlIds(c) == {control.Id : control \in ControlsOf(c)}

\* C11: when an id of the catalog-level applicabilityCategories equals a label
\* (ignoring case), the control filter selects every control of the catalog, also one
\* without a matching assessment-requirement label: the output holds every family
\* that has a control, with all its controls.
C11_CatalogLevelSelectsAll ==
    (Succeeded /\ tool = ToolControls /\ CatalogLevelMatch(catalog, params.Labels)) =>
        Returned.ControlFamilies =
            SelectSeq(catalog.ControlFamilies, LAMBDA f : Len(f.Controls) > 0)

\* a catalog-level category matched, a control whose only requirement entry matches no
\* label was selected, and a family without controls was dropped
C11_Witness ==
    /\ Succeeded /\ tool = ToolControls /\ CatalogLevelMatch(catalog, params.Labels)
    /\ \E control \in ControlsOf(catalog) :
          /\ Len(control.AssessmentRequirements) > 0
          /\ Len(control.AssessmentRequirements[1].Applicability) > 0
          /\ ~RequirementMatch(control, params.Labels)
          /\ control \in ControlsOf(Returned)
    /\ Len(Returned.ControlFamilies) < Len(catalog.ControlFamilies)

Reverse(s) == [i \in 1..Len(s) |-> s[Len(s) + 1 - i]]

\* the catalog with the requirements of every control, and the entries of every
\* requirement, in the opposite order
ReverseRequirements(c) ==
    [c EXCEPT !.ControlFamilies =
        [f \in 1..Len(@) |->
            [@[f] EXCEPT !.Controls =
                [k \in 1..Len(@) |->
                    [@[k] EXCEPT !.AssessmentRequirements =
                        Reverse([r \in 1..Len(@) |->
                                    [@[r] EXCEPT !.Applicability = Reverse(@)]])]]]]]

\* C12: when no catalog-level applicabilityCategories id is among the labels, a
\* control is selected iff an applicability entry of one of its assessment
\* requirements equals a label ignoring case, and the selection is the same for the
\* requirements, the entries and the labels taken in the opposite order.
C12_SelectedIffRequirementLabel ==
    (Succeeded /\ tool = ToolControls /\ ~CatalogLevelMatch(catalog, params.Labels)) =>
        /\ ControlIds(Returned) =
              {control.Id : control \in
                  {x \in ControlsOf(catalog) : RequirementMatch(x, params.Labels)}}
        /\ ControlIds(filteredCatalog(ReverseRequirements(catalog), params.Labels))
              = ControlIds(Returned)
        /\ ControlIds(filteredCatalog(catalog, Reverse(params.Labels))) = ControlIds(Returned)

\* a control was selected by an entry of its second requirement that equals the
\* second label in another letter case, with no catalog-level match
C12_Witness ==
    /\ Succeeded /\ tool = ToolControls /\ ~CatalogLevelMatch(catalog, params.Labels)
    /\ params.Labels = <<Stru, StrUs>>
    /\ \E control \in ControlsOf(catalog) :
          /\ Len(control.AssessmentRequirements) = 2
          /\ control.AssessmentRequirements[1].Applicability = <<>>
          /\ control.AssessmentRequirements[2].Applicability = <<StrUS>>
          /\ control \in ControlsOf(Returned)
    /\ ControlsOf(Returned) # ControlsOf(catalog)

\* s is t with some elements left out, the others in their order
RECURSIVE SubseqOf(_, _)
SubseqOf(s, t) ==
    IF s = <<>> THEN TRUE
    ELSE IF t = <<>> THEN FALSE
    ELSE IF Head(s) = Head(t) THEN SubseqOf(Tail(s), Tail(t))
    ELSE SubseqOf(s, Tail(t))

IdsOf(containers) == [i \in 1..Len(containers) |-> containers[i].Id]

\* the containers outs are a filter's result for the containers ins
FilterShape(outs, ins, Children(_), Keep(_)) ==
    /\ SubseqOf(IdsOf(outs), IdsOf(ins))
    /\ \A i \in 1..Len(outs) :
          /\ Len(Children(outs[i])) > 0
          /\ \E j \in 1..Len(ins) :
                /\ ins[j].Id = outs[i].Id
                /\ SubseqOf(Children(outs[i]), Children(ins[j]))
    /\ \A j \in 1..Len(ins) :
          (\E k \in 1..Len(Children(ins[j])) : Keep(Children(ins[j])[k]))
              => \E i \in 1..Len(outs) : outs[i].Id = ins[j].Id

\* every non-empty criterion equals, ignoring case, an entry of its applicability set
CriteriaHold(d, p) ==
    LET app == d.Metadata.Applicability
        in(c, entries) == c # EmptyStr => \E i \in 1..Len(entries) : EqualFold(entries[i], c)
    IN /\ in(p.Technology, app.TechnologyDomains)
       /\ in(p.Sector, app.IndustrySectors)
       /\ in(p.Jurisdiction, app.Jurisdictions)

GuidelinesOfCategory(category) == category.Guidelines

ControlsOfFamily(family) == family.Controls

\* C13: the categories (families) of a filter's output are an order-preserving
\* subsequence of the input's, the guidelines (controls) of each surviving one are an
\* order-preserving subsequence of its input children, every surviving category
\* (family) has a child, and every input category (family) with a matching child
\* survives.
C13_OrderPreservingSubsequences ==
    /\ (Succeeded /\ tool = ToolGuidance) =>
          FilterShape(Returned.Categories, doc.Categories, GuidelinesOfCategory,
                      LAMBDA g : CriteriaHold(doc, params))
    /\ (Succeeded /\ tool = ToolControls) =>
          FilterShape(Returned.ControlFamilies, catalog.ControlFamilies, ControlsOfFamily,
                      LAMBDA x : \/ CatalogLevelMatch(catalog, params.Labels)
                                 \/ RequirementMatch(x, params.Labels))

\* the control filter kept both controls of a family and dropped the family before it
C13_Witness ==
    /\ Succeeded /\ tool = ToolControls
    /\ Len(catalog.ControlFamilies) = 2
    /\ Len(Returned.ControlFamilies) = 1
    /\ Returned.ControlFamilies[1].Id = catalog.ControlFamilies[2].Id
    /\ Len(Returned.ControlFamilies[1].Controls) = 2
    /\ ~CatalogLevelMatch(catalog, params.Labels)

----------------------------------------------------------------------------
(* Properties of the three operations *)

\* the last read of the invocation decoded a document or a catalog
LastLoadSucceeded == ioLog # <<>> /\ ioLog[Len(ioLog)].data # NoData

\* an entry of a guidelineMappings block of the control names a guideline of d
Resolves(control, d) ==
    \E m \in 1..Len(control.GuidelineMappings) :
       \E e \in 1..Len(control.GuidelineMappings[m].Entries) :
          control.GuidelineMappings[m].Entries[e].ReferenceId \in GuidelineIds(d)

\* C14: once its documents have loaded, an operation returns no error-flagged
\* response: a guidance or control filter that excludes everything returns a
\* document or catalog with zero categories or families, and synthesis over a catalog
\* without resolvable reference returns a Mapping with an empty controlModifications
\* list.
C14_ContentIsNeverAnError ==
    (pc = "done" /\ LastLoadSucceeded) =>
        /\ Succeeded
        /\ (tool = ToolGuidance /\ ~CriteriaHold(doc, params)) =>
               (resp.result.StructuredContent.kind = "GuidanceDocument"
                  /\ Returned.Categories = <<>>)
        /\ (tool = ToolControls
               /\ ~CatalogLevelMatch(catalog, params.Labels)
               /\ \A control \in ControlsOf(catalog) : ~RequirementMatch(control, params.Labels))
               => (resp.result.StructuredContent.kind = "Catalog"
                     /\ Returned.ControlFamilies = <<>>)
        /\ (tool = ToolSynth /\ \A control \in ControlsOf(catalog) : ~Resolves(control, doc))
               => (resp.result.StructuredContent.kind = "Mapping"
                     /\ Returned.ControlModifications = <<>>)

\* synthesis returned a Mapping without modifiers for a document with guidelines and
\* a catalog whose only reference names no guideline
C14_Witness ==
    /\ Succeeded /\ tool = ToolSynth
    /\ GuidelineIds(doc) # {}
    /\ \E control \in ControlsOf(catalog) :
          /\ Len(control.GuidelineMappings) = 1
          /\ Len(control.GuidelineMappings[1].Entries) = 1
    /\ \A control \in ControlsOf(catalog) : ~Resolves(control, doc)
    /\ Returned.ControlModifications = <<>>

----------------------------------------------------------------------------
(* Properties of modifier synthesis *)

Modifiers == Returned.ControlModifications

\* C15: every ControlModifier of a Mapping that modifier synthesis returns has a
\* modification type that is one of alter, add, remove, whatever modification_type
\* the handler accepted.
C15_ModTypeIsOfTheList ==
    (Succeeded /\ tool = ToolSynth) =>
        \A i \in 1..Len(Modifiers) : Modifiers[i].ModType \in ModTypes

\* C16: without modification_type, or with an empty one, every emitted modifier has
\* type alter; with a supplied one every emitted modifier has the supplied type.
C16_DefaultAlterElseSupplied ==
    (Succeeded /\ tool = ToolSynth) =>
        LET supplied == Arg(args, "modification_type", "")
        IN \A i \in 1..Len(Modifiers) :
              Modifiers[i].ModType = IF supplied = "" THEN "alter" ELSE supplied

\* a request that carries no modification_type produced a modifier
C16_Witness ==
    /\ Succeeded /\ tool = ToolSynth
    /\ ~Given("modification_type")
    /\ Len(Modifiers) > 0
    /\ Modifiers[1].ModType = "alter"

\* the guidelines of a document
GuidelinesOf(d) ==
    UNION {{d.Categories[c].Guidelines[g] : g \in 1..Len(d.Categories[c].Guidelines)} :
           c \in 1..Len(d.Categories)}

\* C17: every emitted ControlModifier has the id of a control of the input catalog as
\* targetId, that control's title and objective, and the request's
\* modification_rationale; no field holds the id or the title of a guideline.
C17_ModifierCopiesControl ==
    (Succeeded /\ tool = ToolSynth) =>
        \A i \in 1..Len(Modifiers) :
            /\ \E control \in ControlsOf(catalog) :
                  /\ Modifiers[i].TargetId = control.Id
                  /\ Modifiers[i].Title = control.Title
                  /\ Modifiers[i].Objective = control.Objective
            /\ Modifiers[i].ModificationRationale = Arg(args, "modification_rationale", "")
            /\ \A g \in GuidelinesOf(doc) :
                  /\ Modifiers[i].TargetId # g.Id
                  /\ Modifiers[i].Title # g.Title
                  /\ Modifiers[i].Objective # g.Title

\* the second control of a catalog got a modifier for a reference that resolved
C17_Witness ==
    /\ Succeeded /\ tool = ToolSynth
    /\ Len(Modifiers) = 1
    /\ Cardinality(ControlsOf(catalog)) = 2
    /\ \E control \in ControlsOf(catalog) :
          /\ Resolves(control, doc)
          /\ control.Id \in {<<"ctl", 1, 2>>, <<"ctl", 2, 1>>}
          /\ Modifiers[1].Title = control.Title
    /\ Modifiers[1].ModificationRationale = "harmonize"

\* C18: every Mapping that modifier synthesis returns has the input catalog's
\* metadata id as referenceId, empty in-scope and out-of-scope placeholders, and empty
\* assessment-requirement and guideline modification lists.
C18_MappingFrame ==
    (Succeeded /\ tool = ToolSynth) =>
        /\ Returned.ReferenceId = catalog.Metadata.Id
        /\ Returned.InScope = EmptyScope
        /\ Returned.OutOfScope = EmptyScope
        /\ Returned.AssessmentRequirementModifications = <<>>
        /\ Returned.GuidelineModifications = <<>>

\* a Mapping with two modifiers was returned
C18_Witness ==
    /\ Succeeded /\ tool = ToolSynth
    /\ Len(Modifiers) = 2
    /\ Returned.ReferenceId # doc.Metadata.Id

\* the ids of the controls of a catalog in catalog order
CatalogOrder(c) ==
    Flatten([f \in 1..Len(c.ControlFamilies) |-> IdsOf(c.ControlFamilies[f].Controls)])

Position(ids, id) == CHOOSE n \in 1..Len(ids) : ids[n] = id

\* C19: a control id is the targetId of an emitted modifier iff an entry of one of the
\* control's guidelineMappings names a guideline id of the guidance document;
\* references that name no guideline are skipped without error, and the targetIds
\* follow the catalog order (families, then controls within a family).
C19_TargetsAreResolvingControls ==
    (pc = "done" /\ tool = ToolSynth /\ LastLoadSucceeded /\ Len(ioLog) = 2) =>
        /\ Succeeded
        /\ {Modifiers[i].TargetId : i \in 1..Len(Modifiers)}
              = {control.Id : control \in {x \in ControlsOf(catalog) : Resolves(x, doc)}}
        /\ \A i, j \in 1..Len(Modifiers) :
              i < j => Position(CatalogOrder(catalog), Modifiers[i].TargetId)
                         <= Position(CatalogOrder(catalog), Modifiers[j].TargetId)

\* of two families' controls one got a modifier, for the second entry of a block
\* whose first entry names no guideline, and a control without resolving reference
\* got none
C19_Witness ==
    /\ Succeeded /\ tool = ToolSynth
    /\ Len(catalog.ControlFamilies) = 2
    /\ Len(Modifiers) = 1
    /\ \E control \in ControlsOf(catalog) :
          /\ Len(control.GuidelineMappings) = 1
          /\ Len(control.GuidelineMappings[1].Entries) = 2
          /\ control.GuidelineMappings[1].Entries[1].ReferenceId \notin GuidelineIds(doc)
          /\ Modifiers[1].TargetId = control.Id
    /\ \E control \in ControlsOf(catalog) : ~Resolves(control, doc)

----------------------------------------------------------------------------
(* Frame of the filters *)

\* every child of every container of outs is a child of the container of ins that has
\* the same id
RecordsOfInput(outs, ins, Children(_)) ==
    \A i \in 1..Len(outs) : \A k \in 1..Len(Children(outs[i])) :
        \E j \in 1..Len(ins) :
            /\ ins[j].Id = outs[i].Id
            /\ \E n \in 1..Len(Children(ins[j])) : Children(ins[j])[n] = Children(outs[i])[k]

\* C20: when a filter has built its result, the document (catalog) it loaded still has
\* the categories (families) and the guidelines (controls) that were decoded, and
\* every guideline (control) record of the output equals the input record.
C20_FiltersLeaveLoadedUnchanged ==
    /\ (Succeeded /\ tool = ToolGuidance) =>
          /\ doc = ioLog[Len(ioLog)].data
          /\ RecordsOfInput(Returned.Categories, ioLog[Len(ioLog)].data.Categories,
                            GuidelinesOfCategory)
    /\ (Succeeded /\ tool = ToolControls) =>
          /\ catalog = ioLog[Len(ioLog)].data
          /\ RecordsOfInput(Returned.ControlFamilies,
                            ioLog[Len(ioLog)].data.ControlFamilies, ControlsOfFamily)

\* the guidance filter dropped a category without guidelines and kept one with a
\* guideline, and the loaded document still has both
C20_Witness ==
    /\ Succeeded /\ tool = ToolGuidance /\ ~first.has
    /\ Len(ioLog[Len(ioLog)].data.Categories) = 2
    /\ Len(Returned.Categories) = 1
    /\ Len(doc.Categories) = 2

----------------------------------------------------------------------------
(* Overlapping invocations *)

\* the reads of an invocation that decoded a document or a catalog, in their order
Decoded(log) == SelectSeq(log, LAMBDA x : x.data # NoData)

\* the response of an invocation that runs alone with arguments a and decodes the
\* documents of reads
AloneResponse(t, a, reads) ==
    LET b == BindArguments(t, a)
        p == IF t = ToolSynth THEN defaultModificationType(b.params) ELSE b.params
    IN IF t = ToolGuidance
       THEN marshalAndReturn("GuidanceDocument", filteredDoc(reads[1].data, p))
       ELSE IF t = ToolControls
       THEN marshalAndReturn("Catalog", filteredCatalog(reads[1].data, p.Labels))
       ELSE marshalAndReturn("Mapping", mapping(reads[1].data, reads[2].data, p))

\* C21: with the steps of two overlapping invocations interleaved in any order, each
\* invocation's response is the one it gives alone for its arguments and the documents
\* it read: an error when one of its own loads failed, and the result computed from
\* its own arguments and documents otherwise.
C21_ResponseAsWhenAlone ==
    pc = "done" =>
        LET reads == Decoded(ioLog)
        IN IF Len(reads) = (IF tool = ToolSynth THEN 2 ELSE 1)
           THEN resp = AloneResponse(tool, args, reads)
           ELSE resp.result.IsError /\ resp.err = "nil"

\* a guidance filter returned its result while a synthesis that had loaded another
\* guidance document waited for its catalog
C21_Witness ==
    /\ Succeeded /\ tool = ToolGuidance
    /\ Returned.Categories # <<>>
    /\ parked.tool = ToolSynth /\ parked.pc = "catio"
    /\ parked.doc # doc
    /\ parked.doc.Categories # <<>>

----------------------------------------------------------------------------
(* Cancellation *)

\* C22: an invocation whose request context was done during a file or network read
\* of the loader returns no filter or synthesis result: its response carries no
\* document, catalog or Mapping.
C22_CancelledReturnsNoResult ==
    (pc = "done" /\ cancelled) => resp.result.StructuredContent.kind = "none"

----------------------------------------------------------------------------
(* Properties of the guidance loader *)

\* the reads of the guidance loader in the invocation, in their order
GuidanceReads == SelectSeq(ioLog, LAMBDA x : x.op # "loadfile")

\* the response is the guidance load error with the given detail
GuidanceLoadError(detail) ==
    resp.result.IsError /\ resp.result.Text = guidanceLoadError /\ resp.result.Detail = detail

DecodeErrors == {<<"error decoding YAML">>, <<"error decoding JSON">>}

\* C23 as claimed: for a file reference as for an http(s) reference the loader decodes
\* YAML first and JSON when that fails, so it reports a decode error only for content
\* that decodes in neither serialization, whatever the file extension.
C23_YamlThenJsonForEveryReference ==
    (pc = "done" /\ Len(GuidanceReads) > 0 /\ GuidanceReads[1].op = "open"
       /\ resp.result.IsError /\ resp.result.Detail \in DecodeErrors)
    => env.file = "garbage"

\* C23 as amended: the file loader uses one decoder, chosen by the extension of the
\* path (JSON for .json, YAML otherwise), reads the file once and reports that
\* decoder's error; the URL loader decodes the first response as YAML and, when that
\* fails, a second response as JSON, and reports a decode error only after both.
C23_DecoderByExtensionFallbackForUrl ==
    (pc = "done" /\ Len(GuidanceReads) > 0) =>
        LET reads == GuidanceReads
            loaded == reads[Len(reads)].data # NoData
        IN IF reads[1].op = "open"
           THEN /\ Len(reads) = 1
                /\ IF env.file = "missing" THEN GuidanceLoadError(<<"error opening file">>)
                   ELSE IF FilepathExt(reads[1].ref) = ExtJson
                   THEN IF env.file = "json" THEN loaded
                        ELSE GuidanceLoadError(<<"error decoding JSON">>)
                   ELSE IF env.file \in {"yaml", "json"} THEN loaded
                        ELSE GuidanceLoadError(<<"error decoding YAML">>)
           ELSE /\ Len(reads) <= 2
                /\ \A i \in 1..Len(reads) : reads[i].op = "get"
                /\ ~GuidanceLoadError(<<"error decoding YAML">>)
                /\ GuidanceLoadError(<<"error decoding JSON">>) => Len(reads) = 2
                /\ (Len(reads) = 2 /\ ~loaded) =>
                       \/ GuidanceLoadError(<<"error decoding JSON">>)
                       \/ GuidanceLoadError(<<"failed to fetch URL for JSON">>)

\* a file with the extension .json that holds a YAML document was answered with the
\* JSON decoder's error after one read
C23_Witness ==
    /\ pc = "done" /\ tool = ToolGuidance
    /\ Len(ioLog) = 1 /\ ioLog[1].op = "open"
    /\ FilepathExt(ioLog[1].ref) = ExtJson
    /\ env.file = "yaml"
    /\ GuidanceLoadError(<<"error decoding JSON">>)

\* the guidance reference as the request carries it
GivenGuidanceRef ==
    IF tool = ToolGuidance THEN Arg(args, "file_path", EmptyStr)
    ELSE Arg(args, "guidelines_file", EmptyStr)

\* C24: a guidance reference with a URI scheme that is none of file, http, https is
\* answered with an error-flagged load error that names the scheme, and neither a
\* file is opened nor a request made for it: the dispatch by scheme comes before all
\* reads.
C24_UnsupportedSchemeBeforeIO ==
    LET u == UrlParse(GivenGuidanceRef)
    IN (tool \in {ToolGuidance, ToolSynth} /\ ~args.bad /\ ~u.err
          /\ u.Scheme \notin {<<>>, SchemeFile, SchemeHttp, SchemeHttps})
       => /\ ioLog = <<>>
          /\ pc \in {"called", "done"}
          /\ (pc = "done" => GuidanceLoadError(<<"unsupported scheme", u.Scheme>>))

\* modifier synthesis answered an ftp:// reference with the load error
C24_Witness ==
    /\ pc = "done" /\ tool = ToolSynth
    /\ GivenGuidanceRef = RefFtp
    /\ Given("controls_file") /\ env.catalog = "ok"
    /\ resp.result.IsError /\ resp.result.Detail[1] = "unsupported scheme"

\* C25: modifier synthesis loads the guidance document before the control catalog:
\* the catalog is loaded only after a guidance read that decoded a document; a failed
\* guidance load is answered with the guidelines load error and no catalog load; the
\* catalog load error is answered only after a successful guidance load; and a
\* Mapping is returned only when both loads succeeded.
C25_GuidanceLoadsBeforeCatalog ==
    tool = ToolSynth =>
        /\ \A i \in 1..Len(ioLog) :
              ioLog[i].op = "loadfile" =>
                  /\ i = Len(ioLog) /\ i > 1
                  /\ ioLog[i - 1].op # "loadfile" /\ ioLog[i - 1].data # NoData
        /\ (pc = "done" /\ ~args.bad /\ Decoded(GuidanceReads) = <<>>) =>
              /\ resp.result.IsError
              /\ resp.result.Text = "Error loading guidelines document"
              /\ GuidanceReads = ioLog
        /\ (pc = "done" /\ resp.result.Text = "Error loading controls catalog") =>
              /\ resp.result.IsError
              /\ Len(Decoded(GuidanceReads)) = 1
              /\ ioLog[Len(ioLog)].op = "loadfile" /\ ioLog[Len(ioLog)].data = NoData
        /\ Succeeded =>
              /\ Len(Decoded(GuidanceReads)) = 1
              /\ ioLog[Len(ioLog)].op = "loadfile" /\ ioLog[Len(ioLog)].data # NoData
              /\ Returned = mapping(Decoded(GuidanceReads)[1].data,
                                    ioLog[Len(ioLog)].data, params)

\* a synthesis whose second fetch decoded the guidance document was answered with the
\* catalog load error
C25_Witness ==
    /\ pc = "done" /\ tool = ToolSynth
    /\ Len(ioLog) = 3
    /\ ioLog[2].data # NoData
    /\ resp.result.IsError /\ resp.result.Text = "Error loading controls catalog"

\* C26: a remote guidance load reports success only for a response with status 200:
\* every fetch whose body was decoded into the document, the first as the second one
\* issued after a YAML decode failure, had status 200.
C26_RemoteSuccessOnlyOnStatusOK ==
    \A i \in 1..Len(ioLog) :
        (ioLog[i].op = "get" /\ ioLog[i].data # NoData) => ioLog[i].status = StatusOK

----------------------------------------------------------------------------
(* Relations of the control filter *)

\* C27: the control filter applied with a label list to the result of the control
\* filter with the same list returns a catalog identical to that result.
C27_ControlFilterIdempotent ==
    (Succeeded /\ tool = ToolControls /\ first.has) => Returned = first.doc

\* a result whose control was kept by a catalog-level category alone was filtered again
C27_Witness ==
    /\ Succeeded /\ tool = ToolControls /\ first.has
    /\ catalog = first.doc
    /\ CatalogLevelMatch(catalog, params.Labels)
    /\ \E control \in ControlsOf(Returned) : ~RequirementMatch(control, params.Labels)

\* the label lists to compare a request's list L with: the non-empty lists of the
\* bounds, and L in capital letters
ComparedLists(L) == (LabelLists \ {<<>>}) \cup {[i \in 1..Len(L) |-> ToUpper(L[i])]}

\* every label of L occurs in M, ignoring case
LabelsWithin(L, M) ==
    \A l \in 1..Len(L) : \E k \in 1..Len(M) : EqualFold(L[l], M[k])

\* C28: the control filter is monotone in the label set and insensitive to the order
\* and the repetition of labels: every control selected with a list is selected with
\* any list that holds all its labels (ignoring case), and two lists with the same
\* case-folded labels give identical results.
C28_MonotoneAndOrderInsensitive ==
    (Succeeded /\ tool = ToolControls /\ ~first.has) =>
        \A M \in ComparedLists(params.Labels) :
            /\ LabelsWithin(params.Labels, M) =>
                  ControlIds(Returned) \subseteq ControlIds(filteredCatalog(catalog, M))
            /\ (LabelsWithin(params.Labels, M) /\ LabelsWithin(M, params.Labels)) =>
                  filteredCatalog(catalog, M) = Returned

\* of two controls one was selected by the second label of the list alone, the other
\* was not selected
C28_Witness ==
    /\ Succeeded /\ tool = ToolControls /\ ~first.has
    /\ params.Labels = <<StrUs, Stru>>
    /\ \E control \in ControlsOf(Returned) :
          RequirementMatch(control, <<Stru>>) /\ ~RequirementMatch(control, <<StrUs>>)
    /\ ControlsOf(Returned) # ControlsOf(catalog)

----------------------------------------------------------------------------
(* Properties of Server.Start *)

\* C29: Start ends in one of three ways: with an error before the listener is started
\* when the log file does not open; with nil when a signal arrived first; and, when
\* the listener finished first, with an error iff the listener returned one. The
\* listener's send on errC never waits.
C29_StartEndsInOneOfThreeWays ==
    /\ srv.pc = "returned" =>
          IF srv.logFilePath = "/nodir/log"
          THEN srv.ret = "failed to open log file" /\ srv.listener = "none"
          ELSE /\ srv.events # <<>>
               /\ srv.events[1] = "signal" => srv.ret = "nil"
               /\ srv.events[1] = "finished" =>
                      (srv.ret = "error running server" <=> srv.listenErr = "err")
    /\ srv.listener = "sending" => Len(srv.errC) < ErrCCapacity

====
